---- MODULE Spec2Model ----
(***************************************************************************)
(* Model of node/src/protocol/presignature.rs: the PresignatureManager,    *)
(* its in-flight PresignatureGenerators and the collaborators it calls     *)
(* (the triple manager and the cait-sith protocol engine).                 *)
(***************************************************************************)
EXTENDS Integers, Sequences, FiniteSets, TLC

\* ---- bounds of the model ----
NumIds == 2
NumTriples == 4
MaxTime == 2
MaxPending == 1

\* ---- program constants and manager configuration ----
PROTOCOL_TIMEOUT == 1
participants == <<1, 2, 3>>
epoch == 5
Thresholds == {2, 4}

PresignatureId == 1..NumIds
TripleId == 1..NumTriples

VARIABLES
    presignatures,  \* PresignatureId -> Presignature  (completed, unspent)
    generators,     \* PresignatureId -> PresignatureGenerator (in flight)
    mine,           \* VecDeque<PresignatureId>
    triples,        \* ids of the triples held by the TripleManager
    held,           \* ids of the triples the caller has taken and not yet passed on
    now,            \* the clock read by Instant::now() / elapsed()
    nextSerial,     \* number of protocol engines constructed so far
    selfInit,       \* serials of the engines constructed by generate
    handed,         \* Presignature -> how many times take / take_mine returned it
    threshold,      \* the manager's threshold, fixed at construction
    panicked,       \* the unwrap in take_mine has aborted the process
    ret,            \* what the last call returned (and what it observed)
    me,             \* the manager's own identity, fixed at construction
    promoted,       \* outputs of the self-initiated presignatures not handed out
                    \* yet, one set per poke call that promoted any, oldest first
    inbox,          \* the messages of other nodes that have reached this node
    peer            \* a second node: its manager, triples, caller and inbox

vars == <<presignatures, generators, mine, triples, held, now, nextSerial,
          selfInit, handed, threshold, panicked, ret, me, promoted, inbox, peer>>

\* ---- maps ----
EmptyMap == [k \in {} |-> 0]
Insert(map, k, v) == [x \in (DOMAIN map) \cup {k} |-> IF x = k THEN v ELSE map[x]]
Remove(map, k) == [x \in (DOMAIN map) \ {k} |-> map[x]]
Count(seq, x) == Cardinality({i \in DOMAIN seq : seq[i] = x})

\* ---- the protocol engine: the actions it has ready, oldest first ----
Wait == [kind |-> "Wait", to |-> 0]
SendMany == [kind |-> "SendMany", to |-> 0]
SendPrivate(p) == [kind |-> "SendPrivate", to |-> p]
Return == [kind |-> "Return", to |-> 0]
Failure == [kind |-> "Err", to |-> 0]

ParticipantSet == {participants[i] : i \in DOMAIN participants}
NonTerminal == {SendMany} \cup {SendPrivate(p) : p \in ParticipantSet \ {me}}
Terminal == {Return, Failure}
IsTerminal(a) == a.kind \in {"Return", "Err"}
HasTerminal(pending) == \E i \in DOMAIN pending : IsTerminal(pending[i])

\* protocol.poke(): the next ready action, Wait when none is ready
ProtocolPoke(protocol) ==
    IF protocol.pending = << >>
    THEN [action |-> Wait, protocol |-> protocol]
    ELSE [action |-> Head(protocol.pending),
          protocol |-> [protocol EXCEPT !.pending = Tail(@)]]

\* ---- PresignatureGenerator ----
NewGenerator(serial, triple0, triple1, isMine) ==
    [protocol |-> [serial |-> serial, pending |-> << >>],
     triple0 |-> triple0, triple1 |-> triple1,
     mine |-> isMine, timestamp |-> now]

TimedOut_Late(generator) == now - generator.timestamp > PROTOCOL_TIMEOUT + 1
TimedOut(generator) == now - generator.timestamp > PROTOCOL_TIMEOUT

GeneratorPoke(generator) ==
    IF TimedOut(generator)
    THEN [ok |-> FALSE, why |-> "Timeout", action |-> Wait, protocol |-> generator.protocol]
    ELSE LET r == ProtocolPoke(generator.protocol) IN
         IF r.action.kind = "Err"
         THEN [ok |-> FALSE, why |-> "Err", action |-> Wait, protocol |-> r.protocol]
         ELSE [ok |-> TRUE, why |-> r.action.kind, action |-> r.action, protocol |-> r.protocol]

\* ---- return values ----
\* op, id: the call and its id; t0, t1: the triples it asked for or was given;
\* res, val, msgs: what it returned
\* (val: the output of a presignature, the engine a handle refers to, or the
\* missing triple); created, messages, log: what the call did on the way
NoRet == [op |-> "none", id |-> 0, t0 |-> 0, t1 |-> 0, res |-> "none", val |-> 0,
          created |-> FALSE, msgs |-> << >>, messages |-> << >>, log |-> {}]
Called(op, id, res, val) == [NoRet EXCEPT !.op = op, !.id = id, !.res = res, !.val = val]
CalledWith(op, id, t0, t1, res, val) ==
    [NoRet EXCEPT !.op = op, !.id = id, !.t0 = t0, !.t1 = t1, !.res = res, !.val = val]

Init ==
    /\ presignatures = EmptyMap
    /\ generators = EmptyMap
    /\ mine = << >>
    /\ triples = TripleId
    /\ held = {}
    /\ now = 0
    /\ nextSerial = 0
    /\ selfInit = {}
    /\ handed = EmptyMap
    /\ threshold \in Thresholds
    /\ panicked = FALSE
    /\ ret = NoRet
    /\ me = participants[1]
    /\ promoted = << >>
    /\ inbox = {}
    /\ peer = [presignatures |-> EmptyMap, generators |-> EmptyMap, mine |-> << >>,
               triples |-> TripleId, held |-> {}, nextSerial |-> 0, selfInit |-> {},
               handed |-> EmptyMap, threshold |-> threshold, panicked |-> FALSE,
               me |-> participants[2], promoted |-> << >>, inbox |-> {}]

\* ---- the environment ----
\* time passes; it is only ever read against a generator's timestamp
Tick ==
    /\ ~panicked
    /\ generators # EmptyMap
    /\ now < MaxTime
    /\ now' = now + 1
    /\ ret' = NoRet
    /\ UNCHANGED <<presignatures, generators, mine, triples, held, nextSerial,
                   selfInit, handed, threshold, panicked>>
    /\ UNCHANGED <<me, promoted, inbox, peer>>

\* the caller takes the two oldest triples of the TripleManager, one pair at a
\* time, before it calls generate
Reserve(t0, t1) ==
    /\ ~panicked
    /\ held = {}
    /\ t0 < t1
    /\ {t0, t1} \subseteq triples
    /\ \A t \in triples \ {t0, t1} : t > t1
    /\ triples' = triples \ {t0, t1}
    /\ held' = held \cup {t0, t1}
    /\ ret' = NoRet
    /\ UNCHANGED <<presignatures, generators, mine, now, nextSerial, selfInit,
                   handed, threshold, panicked>>
    /\ UNCHANGED <<me, promoted, inbox, peer>>

\* the engine of generator id gets one more action ready (its own computation,
\* or a peer message the caller fed it through the handle of get_or_generate)
EngineProgress(id, a) ==
    /\ ~panicked
    /\ id \in DOMAIN generators
    /\ LET pending == generators[id].protocol.pending IN
         /\ ~HasTerminal(pending)
         /\ IsTerminal(a) \/ Len(pending) < MaxPending
    /\ generators' = [generators EXCEPT ![id].protocol.pending = Append(@, a)]
    /\ ret' = NoRet
    /\ UNCHANGED <<presignatures, mine, triples, held, now, nextSerial, selfInit,
                   handed, threshold, panicked>>
    /\ UNCHANGED <<me, promoted, inbox, peer>>

\* ---- PresignatureManager ----
\* cait_sith::presign refuses a participant list or threshold it cannot run with
GenerateInternal(serial, triple0, triple1, isMine) ==
    IF Len(participants) < 2 \/ threshold > Len(participants) \/ me \notin ParticipantSet
    THEN [ok |-> FALSE, generator |-> NewGenerator(0, triple0, triple1, isMine)]
    ELSE [ok |-> TRUE, generator |-> NewGenerator(serial, triple0, triple1, isMine)]

Generate(id, t0, t1) ==
    /\ ~panicked
    /\ t0 < t1
    /\ {t0, t1} \subseteq held
    /\ held' = held \ {t0, t1}
    /\ LET made == GenerateInternal(nextSerial + 1, t0, t1, TRUE) IN
       IF made.ok
       THEN /\ generators' = Insert(generators, id, made.generator)
            /\ nextSerial' = nextSerial + 1
            /\ selfInit' = selfInit \cup {nextSerial + 1}
            /\ ret' = CalledWith("generate", id, t0, t1, "Ok", nextSerial + 1)
       ELSE /\ UNCHANGED <<generators, nextSerial, selfInit>>
            /\ ret' = CalledWith("generate", id, t0, t1, "InitializationError", 0)
    /\ UNCHANGED <<presignatures, mine, triples, now, handed, threshold, panicked>>
    /\ UNCHANGED <<me, promoted, inbox, peer>>

\* TripleManager::take_two: both triples or the id of the first missing one
TakeTwo(t0, t1) ==
    IF t0 \notin triples THEN [ok |-> FALSE, missing |-> t0, triples |-> triples]
    ELSE IF t1 \notin triples THEN [ok |-> FALSE, missing |-> t1, triples |-> triples]
    ELSE [ok |-> TRUE, missing |-> 0, triples |-> triples \ {t0, t1}]

\* which arm of get_or_generate an id takes
Lookup_NoJoin(id) ==
    IF id \in DOMAIN presignatures THEN "AlreadyGenerated" ELSE "Vacant"
Lookup_GeneratorsOnly(id) ==
    IF id \in DOMAIN generators THEN "Occupied" ELSE "Vacant"
Lookup(id) ==
    IF id \in DOMAIN presignatures THEN "AlreadyGenerated"
    ELSE IF id \in DOMAIN generators THEN "Occupied"
    ELSE "Vacant"

\* the error get_or_generate makes of a failed take_two
JoinError_First(taken, t0, t1) == t0
JoinError(taken, t0, t1) == taken.missing

\* a join that marks the generator it creates as the node's own
GetOrGenerate_Mine(id, t0, t1) ==
    /\ ~panicked
    /\ t0 < t1
    /\ IF Lookup(id) = "AlreadyGenerated"
       THEN /\ ret' = Called("get_or_generate", id, "AlreadyGenerated", 0)
            /\ UNCHANGED <<generators, triples, nextSerial>>
       ELSE IF Lookup(id) = "Occupied"
       THEN /\ ret' = Called("get_or_generate", id, "Ok", generators[id].protocol.serial)
            /\ UNCHANGED <<generators, triples, nextSerial>>
       ELSE LET taken == TakeTwo(t0, t1) IN
            /\ triples' = taken.triples
            /\ IF ~taken.ok
               THEN /\ ret' = CalledWith("get_or_generate", id, t0, t1, "TripleIsMissing",
                                         JoinError(taken, t0, t1))
                    /\ UNCHANGED <<generators, nextSerial>>
               ELSE IF ~GenerateInternal(nextSerial + 1, t0, t1, TRUE).ok
               THEN /\ ret' = CalledWith("get_or_generate", id, t0, t1,
                                         "InitializationError", 0)
                    /\ UNCHANGED <<generators, nextSerial>>
               ELSE /\ generators' = Insert(generators, id,
                                            GenerateInternal(nextSerial + 1, t0, t1, TRUE).generator)
                    /\ nextSerial' = nextSerial + 1
                    /\ ret' = [CalledWith("get_or_generate", id, t0, t1, "Ok", nextSerial + 1)
                                  EXCEPT !.created = TRUE]
    /\ UNCHANGED <<presignatures, mine, held, now, selfInit, handed, threshold, panicked>>
    /\ UNCHANGED <<me, promoted, inbox, peer>>

GetOrGenerate(id, t0, t1) ==
    /\ ~panicked
    /\ t0 < t1
    /\ IF Lookup(id) = "AlreadyGenerated"
       THEN /\ ret' = Called("get_or_generate", id, "AlreadyGenerated", 0)
            /\ UNCHANGED <<generators, triples, nextSerial>>
       ELSE IF Lookup(id) = "Occupied"
       THEN /\ ret' = Called("get_or_generate", id, "Ok", generators[id].protocol.serial)
            /\ UNCHANGED <<generators, triples, nextSerial>>
       ELSE LET taken == TakeTwo(t0, t1) IN
            /\ triples' = taken.triples
            /\ IF ~taken.ok
               THEN /\ ret' = CalledWith("get_or_generate", id, t0, t1, "TripleIsMissing",
                                         JoinError(taken, t0, t1))
                    /\ UNCHANGED <<generators, nextSerial>>
               ELSE IF ~GenerateInternal(nextSerial + 1, t0, t1, FALSE).ok
               THEN /\ ret' = CalledWith("get_or_generate", id, t0, t1,
                                         "InitializationError", 0)
                    /\ UNCHANGED <<generators, nextSerial>>
               ELSE /\ generators' = Insert(generators, id,
                                            GenerateInternal(nextSerial + 1, t0, t1, FALSE).generator)
                    /\ nextSerial' = nextSerial + 1
                    /\ ret' = [CalledWith("get_or_generate", id, t0, t1, "Ok", nextSerial + 1)
                                  EXCEPT !.created = TRUE]
    /\ UNCHANGED <<presignatures, mine, held, now, selfInit, handed, threshold, panicked>>
    /\ UNCHANGED <<me, promoted, inbox, peer>>

\* the record of what is still to be handed out, without one output
Settle(queue, output) ==
    SelectSeq([i \in DOMAIN queue |-> queue[i] \ {output}], LAMBDA batch : batch # {})

\* the record with the outputs one poke call promoted for this node itself
Queued(queue, st) ==
    LET batch == {st.presignatures[l.id].output :
                     l \in {x \in st.log : x.why = "Return" /\ x.mine}}
    IN  IF batch = {} THEN queue ELSE Append(queue, batch)

HandOut(presignature) ==
    Insert(handed, presignature,
           IF presignature \in DOMAIN handed THEN handed[presignature] + 1 ELSE 1)

TakeMine ==
    /\ ~panicked
    /\ IF mine = << >>
       THEN /\ ret' = Called("take_mine", 0, "None", 0)
            /\ UNCHANGED <<presignatures, mine, handed, panicked, promoted>>
       ELSE LET my_presignature_id == Head(mine) IN
            /\ mine' = Tail(mine)
            /\ IF my_presignature_id \in DOMAIN presignatures
               THEN /\ presignatures' = Remove(presignatures, my_presignature_id)
                    /\ handed' = HandOut(presignatures[my_presignature_id])
                    /\ promoted' = Settle(promoted, presignatures[my_presignature_id].output)
                    /\ ret' = Called("take_mine", my_presignature_id, "Some",
                                     presignatures[my_presignature_id].output)
                    /\ UNCHANGED panicked
               ELSE /\ panicked' = TRUE
                    /\ ret' = Called("take_mine", my_presignature_id, "panic", 0)
                    /\ UNCHANGED <<presignatures, handed, promoted>>
    /\ UNCHANGED <<generators, triples, held, now, nextSerial, selfInit, threshold>>
    /\ UNCHANGED <<me, inbox, peer>>

Take_Get(id) ==
    /\ ~panicked
    /\ IF id \in DOMAIN presignatures
       THEN /\ handed' = HandOut(presignatures[id])
            /\ promoted' = Settle(promoted, presignatures[id].output)
            /\ ret' = Called("take", id, "Some", presignatures[id].output)
            /\ UNCHANGED presignatures
       ELSE /\ ret' = Called("take", id, "None", 0)
            /\ UNCHANGED <<presignatures, handed, promoted>>
    /\ UNCHANGED <<generators, mine, triples, held, now, nextSerial, selfInit, threshold, panicked>>
    /\ UNCHANGED <<me, inbox, peer>>

Take(id) ==
    /\ ~panicked
    /\ IF id \in DOMAIN presignatures
       THEN /\ presignatures' = Remove(presignatures, id)
            /\ handed' = HandOut(presignatures[id])
            /\ promoted' = Settle(promoted, presignatures[id].output)
            /\ ret' = Called("take", id, "Some", presignatures[id].output)
       ELSE /\ ret' = Called("take", id, "None", 0)
            /\ UNCHANGED <<presignatures, handed, promoted>>
    /\ UNCHANGED <<generators, mine, triples, held, now, nextSerial, selfInit, threshold, panicked>>
    /\ UNCHANGED <<me, inbox, peer>>

\* ---- poke ----
Message(id, generator) ==
    [id |-> id, triple0 |-> generator.triple0, triple1 |-> generator.triple1,
     epoch |-> epoch, from |-> me]

\* a broadcast that leaves out the node itself
SendManyMessages_SkipMe(id, generator) ==
    LET others == SelectSeq(participants, LAMBDA p : p # me) IN
    [i \in 1..Len(others) |-> <<others[i], Message(id, generator)>>]

SendManyMessages(id, generator) ==
    [i \in 1..Len(participants) |-> <<participants[i], Message(id, generator)>>]

SendPrivateMessage(p, id, generator) == <<p, Message(id, generator)>>

Promote_NotQueued(st, id, generator) ==
    [st EXCEPT !.presignatures = Insert(@, id, [id |-> id, output |-> generator.protocol.serial])]

\* a promotion that queues every completed id, joined ones included
Promote_MineAlways(st, id, generator) ==
    [st EXCEPT !.presignatures = Insert(@, id, [id |-> id, output |-> generator.protocol.serial]),
               !.mine = Append(@, id)]

Promote(st, id, generator) ==
    [st EXCEPT !.presignatures = Insert(@, id, [id |-> id, output |-> generator.protocol.serial]),
               !.mine = IF generator.mine THEN Append(@, id) ELSE @]

\* the one element of a singleton set (binds a value that is computed once)
The(S) == CHOOSE x \in S : TRUE

\* the loop of the retain closure for one generator: r is what generator.poke()
\* returned in this iteration
RECURSIVE Loop(_, _, _)
\* a loop that puts each new message in front of the ones collected so far
LoopArm_Prepend(st, id, generator, r) ==
    IF ~r.ok
    THEN [st |-> [st EXCEPT !.result = "Err"], keep |-> FALSE,
          generator |-> generator, why |-> r.why]
    ELSE CASE r.action.kind = "Wait" ->
                [st |-> st, keep |-> TRUE, generator |-> generator, why |-> "Wait"]
           [] r.action.kind = "SendMany" ->
                Loop([st EXCEPT !.messages = SendManyMessages(id, generator) \o @],
                     id, generator)
           [] r.action.kind = "SendPrivate" ->
                Loop([st EXCEPT !.messages =
                            <<SendPrivateMessage(r.action.to, id, generator)>> \o @],
                     id, generator)
           [] r.action.kind = "Return" ->
                [st |-> Promote(st, id, generator), keep |-> FALSE,
                 generator |-> generator, why |-> "Return"]

LoopArm(st, id, generator, r) ==
    IF ~r.ok
    THEN [st |-> [st EXCEPT !.result = "Err"], keep |-> FALSE,
          generator |-> generator, why |-> r.why]
    ELSE CASE r.action.kind = "Wait" ->
                [st |-> st, keep |-> TRUE, generator |-> generator, why |-> "Wait"]
           [] r.action.kind = "SendMany" ->
                Loop([st EXCEPT !.messages = @ \o SendManyMessages(id, generator)],
                     id, generator)
           [] r.action.kind = "SendPrivate" ->
                Loop([st EXCEPT !.messages =
                            Append(@, SendPrivateMessage(r.action.to, id, generator))],
                     id, generator)
           [] r.action.kind = "Return" ->
                [st |-> Promote(st, id, generator), keep |-> FALSE,
                 generator |-> generator, why |-> "Return"]

Loop(st, id, generator) ==
    The({LoopArm(st, id, [generator EXCEPT !.protocol = r.protocol], r) :
            r \in {GeneratorPoke(generator)}})

\* what the retain closure leaves of the map, and the record of what it did
Retained(gens, id, r) ==
    IF r.keep THEN [gens EXCEPT ![id] = r.generator] ELSE Remove(gens, id)
Logged(gens, id, r) ==
    [r.st EXCEPT !.log = @ \cup
        {[id |-> id, why |-> r.why, pending |-> gens[id].protocol.pending,
          mine |-> gens[id].mine]}]

\* a retain that gives up at the first generator that fails
RECURSIVE Retain_Abort(_, _, _)
Retain_Abort(order, gens, st) ==
    IF order = << >>
    THEN [generators |-> gens, st |-> st]
    ELSE The({IF r.why \in {"Err", "Timeout"}
              THEN [generators |-> Remove(gens, Head(order)),
                    st |-> Logged(gens, Head(order), r)]
              ELSE Retain_Abort(Tail(order), Retained(gens, Head(order), r),
                                Logged(gens, Head(order), r)) :
                 r \in {Loop(st, Head(order), gens[Head(order)])}})

\* generators.retain(..), visiting the entries in the order the hash map yields them
RECURSIVE Retain(_, _, _)
Retain(order, gens, st) ==
    IF order = << >>
    THEN [generators |-> gens, st |-> st]
    ELSE The({Retain(Tail(order), Retained(gens, Head(order), r),
                     Logged(gens, Head(order), r)) :
                 r \in {Loop(st, Head(order), gens[Head(order)])}})

\* the triples of the generators a poke dropped without a presignature
Lost(gens, log) ==
    UNION {{gens[l.id].triple0, gens[l.id].triple1} : l \in {x \in log : x.why \in {"Err", "Timeout"}}}

Orders(S) ==
    {o \in [1..Cardinality(S) -> S] : \A i, j \in 1..Cardinality(S) : o[i] = o[j] => i = j}

PokeResult(result, messages) == IF result = "Ok" THEN messages ELSE << >>

\* a poke that gives the triples of a failed generator back to the TripleManager
Poke_Refund ==
    /\ ~panicked
    /\ \E r \in {Retain(order, generators,
                         [presignatures |-> presignatures, mine |-> mine,
                          messages |-> << >>, result |-> "Ok", log |-> {}]) :
                      order \in Orders(DOMAIN generators)} :
             /\ generators' = r.generators
             /\ presignatures' = r.st.presignatures
             /\ mine' = r.st.mine
             /\ promoted' = Queued(promoted, r.st)
             /\ triples' = triples \cup Lost(generators, r.st.log)
             /\ ret' = [Called("poke", 0, r.st.result, 0) EXCEPT
                           !.msgs = PokeResult(r.st.result, r.st.messages),
                           !.messages = r.st.messages,
                           !.log = r.st.log]
    /\ UNCHANGED <<held, now, nextSerial, selfInit, handed, threshold, panicked>>
    /\ UNCHANGED <<me, inbox, peer>>

Poke ==
    /\ ~panicked
    /\ \E r \in {Retain(order, generators,
                         [presignatures |-> presignatures, mine |-> mine,
                          messages |-> << >>, result |-> "Ok", log |-> {}]) :
                      order \in Orders(DOMAIN generators)} :
             /\ generators' = r.generators
             /\ presignatures' = r.st.presignatures
             /\ mine' = r.st.mine
             /\ promoted' = Queued(promoted, r.st)
             /\ ret' = [Called("poke", 0, r.st.result, 0) EXCEPT
                           !.msgs = PokeResult(r.st.result, r.st.messages),
                           !.messages = r.st.messages,
                           !.log = r.st.log]
    /\ UNCHANGED <<triples, held, now, nextSerial, selfInit, handed, threshold, panicked>>
    /\ UNCHANGED <<me, inbox, peer>>

Next ==
    \/ Tick
    \/ \E t0, t1 \in TripleId : Reserve(t0, t1)
    \/ \E id \in PresignatureId, a \in NonTerminal \cup Terminal : EngineProgress(id, a)
    \/ \E id \in PresignatureId, t0, t1 \in TripleId : Generate(id, t0, t1)
    \/ \E id \in PresignatureId, t0, t1 \in TripleId : GetOrGenerate(id, t0, t1)
    \/ TakeMine
    \/ \E id \in PresignatureId : Take(id)
    \/ Poke

Spec == Init /\ [][Next]_vars

\* ---- a single node that generates and consumes its own presignatures ----
\* generate picks an id no other generation uses, no generator times out, every
\* engine gets what it needs to finish, and the node keeps poking and taking.
FreshGenerate(id, t0, t1) ==
    /\ id \notin (DOMAIN generators) \cup (DOMAIN presignatures)
    /\ Generate(id, t0, t1)

TickInTime ==
    /\ \A id \in DOMAIN generators : now + 1 - generators[id].timestamp <= PROTOCOL_TIMEOUT
    /\ Tick

LiveNext ==
    \/ TickInTime
    \/ \E t0, t1 \in TripleId : Reserve(t0, t1)
    \/ \E id \in PresignatureId, a \in NonTerminal \cup {Return} : EngineProgress(id, a)
    \/ \E id \in PresignatureId, t0, t1 \in TripleId : FreshGenerate(id, t0, t1)
    \/ TakeMine
    \/ Poke

LiveSpec ==
    /\ Init
    /\ [][LiveNext]_vars
    /\ WF_vars(Poke)
    /\ WF_vars(TakeMine)
    /\ \A id \in PresignatureId : WF_vars(EngineProgress(id, Return))

\* ---- a node whose engines make several messages ready between two pokes ----
\* an idle engine gets two messages ready at once; nothing times out and
\* nothing is taken, generators are started, joined, advanced and poked.
EngineBurst(id, a, b) ==
    /\ ~panicked
    /\ id \in DOMAIN generators
    /\ generators[id].protocol.pending = << >>
    /\ generators' = [generators EXCEPT ![id].protocol.pending = <<a, b>>]
    /\ ret' = NoRet
    /\ UNCHANGED <<presignatures, mine, triples, held, now, nextSerial, selfInit,
                   handed, threshold, panicked>>
    /\ UNCHANGED <<me, promoted, inbox, peer>>

BatchNext ==
    \/ \E t0, t1 \in TripleId : Reserve(t0, t1)
    \/ \E id \in PresignatureId, t0, t1 \in TripleId : FreshGenerate(id, t0, t1)
    \/ \E id \in PresignatureId, t0, t1 \in TripleId : GetOrGenerate(id, t0, t1)
    \/ \E id \in PresignatureId, a, b \in NonTerminal : EngineBurst(id, a, b)
    \/ \E id \in PresignatureId, a \in NonTerminal \cup Terminal : EngineProgress(id, a)
    \/ Poke

BatchSpec == Init /\ [][BatchNext]_vars

\* ---- two nodes: one generates, the other joins on its messages ----
\* The manager variables are those of the node that runs; peer holds the other
\* node, and Switch lets the other node run. The caller of poke sends the batch
\* before it does anything else; the messages addressed to the other node reach
\* its inbox, and a node calls get_or_generate for a message of its inbox.
\* The first node starts one generation; no generator times out.
Here ==
    [presignatures |-> presignatures, generators |-> generators, mine |-> mine,
     triples |-> triples, held |-> held, nextSerial |-> nextSerial,
     selfInit |-> selfInit, handed |-> handed, threshold |-> threshold,
     panicked |-> panicked, me |-> me, promoted |-> promoted, inbox |-> inbox]

AtNode(n) == IF me = n THEN Here ELSE peer

Outgoing ==
    IF ret.op = "poke"
    THEN {ret.msgs[i][2] : i \in {j \in DOMAIN ret.msgs : ret.msgs[j][1] = peer.me}}
    ELSE {}

Undelivered == Outgoing # {}

Switch ==
    /\ peer' = Here
    /\ presignatures' = peer.presignatures
    /\ generators' = peer.generators
    /\ mine' = peer.mine
    /\ triples' = peer.triples
    /\ held' = peer.held
    /\ nextSerial' = peer.nextSerial
    /\ selfInit' = peer.selfInit
    /\ handed' = peer.handed
    /\ threshold' = peer.threshold
    /\ panicked' = peer.panicked
    /\ me' = peer.me
    /\ promoted' = peer.promoted
    /\ inbox' = peer.inbox \cup Outgoing
    /\ ret' = NoRet
    /\ UNCHANGED now

Receive(m) ==
    /\ m \in inbox
    /\ GetOrGenerate(m.id, m.triple0, m.triple1)

\* a message for an id this node has not seen yet
Join ==
    \E m \in inbox :
       /\ m.id \notin (DOMAIN generators) \cup (DOMAIN presignatures)
       /\ Receive(m)

Initiator == participants[1]
Joiner == participants[2]

PairNext ==
    \/ Switch
    \/ /\ ~Undelivered
       /\ me = Initiator
       /\ nextSerial = 0
       /\ \/ \E t0, t1 \in TripleId : Reserve(t0, t1)
          \/ \E id \in PresignatureId, t0, t1 \in TripleId : FreshGenerate(id, t0, t1)
    \/ /\ ~Undelivered
       /\ \/ \E id \in PresignatureId, a \in {SendMany, Return} : EngineProgress(id, a)
          \/ \E m \in inbox : Receive(m)
          \/ Poke

\* Each node runs on its own: whichever node the model shows, the other gets
\* its turn, and a step a node can take whenever it is its turn is taken
\* (strong fairness, since a node's step is disabled while the other runs).
PairSpec ==
    /\ Init
    /\ [][PairNext]_vars
    /\ WF_vars(Switch)
    /\ \A n \in {Initiator, Joiner} :
          /\ SF_vars(me = n /\ ~Undelivered /\ Poke)
          /\ SF_vars(me = n /\ ~Undelivered /\ Join)
          /\ \A id \in PresignatureId :
                SF_vars(me = n /\ ~Undelivered /\ EngineProgress(id, Return))

\* ---- the counts the manager reports ----
len == Cardinality(DOMAIN presignatures)
my_len == Len(mine)
potential_len == Cardinality(DOMAIN presignatures) + Cardinality(DOMAIN generators)

\* ---- properties ----
Last(seq) == seq[Len(seq)]
Expired(generator) == now - generator.timestamp > PROTOCOL_TIMEOUT
Serials == 1..(NumTriples \div 2)
InFlight(s) ==
    \E id \in DOMAIN generators : generators[id].protocol.serial = s
CompletedAs(id, s) ==
    id \in DOMAIN presignatures /\ presignatures[id] = [id |-> id, output |-> s]

\* C1: no identifier is at the same time a key of presignatures and a key of
\* generators.
C1_Disjoint == (DOMAIN presignatures) \cap (DOMAIN generators) = {}

\* C2: the mine queue holds exactly the ids of the self-initiated presignatures
\* that are still in presignatures, each once, so take_mine never reaches the
\* unwrap of a missing entry.
C2_MineMatchesPresignatures ==
    /\ ~panicked
    /\ \A id \in PresignatureId :
         Count(mine, id) =
            IF id \in DOMAIN presignatures /\ presignatures[id].output \in selfInit
            THEN 1 ELSE 0

\* C3: a completed presignature is handed out at most once: no presignature is
\* returned twice by take / take_mine, the id is gone from presignatures right
\* after the call that returned it, and a take(id) that follows returns None.
C3_HandedOutOnce ==
    /\ [](\A p \in DOMAIN handed : handed[p] = 1)
    /\ [](ret.op \in {"take", "take_mine"} /\ ret.res = "Some"
            => ret.id \notin DOMAIN presignatures)
    /\ [][(/\ ret.op \in {"take", "take_mine"} /\ ret.res = "Some"
            /\ ret'.op = "take"
            /\ Take(ret.id))
               => ret'.res = "None"]_vars

C3_Witness ==
    /\ ret.op = "take" /\ ret.res = "None"
    /\ \E p \in DOMAIN handed : p.id = ret.id /\ handed[p] = 1

\* C4: every self-initiated generation that is in flight leads to exactly one
\* presignature, queued in mine once, which take_mine then returns; no
\* presignature is ever returned twice.
C4_GenerateYieldsOneMine ==
    /\ \A s \in Serials :
         (InFlight(s) /\ s \in selfInit)
            ~> (/\ \E id \in PresignatureId : CompletedAs(id, s) /\ Count(mine, id) = 1
                /\ Cardinality({id \in DOMAIN presignatures :
                                   presignatures[id].output = s}) = 1)
    /\ \A s \in Serials :
         (InFlight(s) /\ s \in selfInit)
            ~> (ret.op = "take_mine" /\ ret.res = "Some" /\ ret.val = s)
    /\ [](\A p \in DOMAIN handed : handed[p] = 1)

C4_Witness ==
    /\ ret.op = "take_mine" /\ ret.res = "Some" /\ ret.val \in selfInit
    /\ \E p \in DOMAIN handed : p.output = ret.val /\ handed[p] = 1
    /\ \A id \in DOMAIN presignatures : presignatures[id].output # ret.val

\* C5: a get_or_generate that repeats the call that created a generator (same id,
\* same triples) returns the handle of that generator, constructs no engine and
\* takes nothing from the triple manager.
C5_IdempotentJoin ==
    [][(/\ ret.op = "get_or_generate" /\ ret.res = "Ok" /\ ret.created
        /\ ret'.op = "get_or_generate"
        /\ GetOrGenerate(ret.id, ret.t0, ret.t1))
           => /\ ret' = Called("get_or_generate", ret.id, "Ok", ret.val)
              /\ generators' = generators
              /\ nextSerial' = nextSerial
              /\ triples' = triples]_vars

C5_Witness ==
    /\ ret.op = "get_or_generate" /\ ret.res = "Ok" /\ ~ret.created
    /\ ret.id \in DOMAIN generators
    /\ ~generators[ret.id].mine
    /\ generators[ret.id].protocol.serial = ret.val
    /\ nextSerial = 1
    /\ {generators[ret.id].triple0, generators[ret.id].triple1} \cap triples = {}

\* C6: get_or_generate with an id that is a key of presignatures returns
\* AlreadyGenerated and changes neither the maps, the queue nor the triples.
C6_AlreadyGenerated ==
    [][(ret'.op = "get_or_generate" /\ ret'.id \in DOMAIN presignatures)
          => /\ ret'.res = "AlreadyGenerated"
             /\ UNCHANGED <<presignatures, generators, mine, triples, nextSerial>>]_vars

C6_Witness ==
    /\ ret.op = "get_or_generate" /\ ret.res = "AlreadyGenerated"
    /\ ret.id \in DOMAIN presignatures
    /\ Cardinality(triples) >= 2

\* C7: get_or_generate with an unknown id and a triple that is absent returns
\* TripleIsMissing naming an absent triple, takes no triple and creates no
\* generator.
C7_TripleIsMissing ==
    [][(/\ ret'.op = "get_or_generate"
        /\ ret'.id \notin (DOMAIN presignatures) \cup (DOMAIN generators)) =>
         \A t0, t1 \in TripleId :
            (~({t0, t1} \subseteq triples) /\ GetOrGenerate(ret'.id, t0, t1))
            => /\ ret'.res = "TripleIsMissing"
               /\ ret'.val \in {t0, t1} \ triples
               /\ ret'.val = t0 \/ t0 \in triples
               /\ UNCHANGED <<presignatures, generators, mine, triples, nextSerial>>]_vars

C7_Witness ==
    /\ ret.op = "get_or_generate" /\ ret.res = "TripleIsMissing"
    /\ ret.val = ret.t1
    /\ ret.t0 \in triples
    /\ ret.id \notin DOMAIN generators

\* C8: a poke drops every generator whose elapsed time exceeds the timeout,
\* whatever its engine has ready: the call fails, emits no message of that
\* generator and adds no presignature and no queue entry for its id.
C8_TimeoutDrops ==
    [][ret'.op = "poke" =>
         \A id \in DOMAIN generators :
            Expired(generators[id])
               => /\ id \notin DOMAIN generators'
                  /\ ret'.res = "Err"
                  /\ \A i \in DOMAIN ret'.messages : ret'.messages[i][2].id # id
                  /\ id \in DOMAIN presignatures'
                        => id \in DOMAIN presignatures /\ presignatures'[id] = presignatures[id]
                  /\ Count(mine', id) = Count(mine, id)]_vars

C8_Witness ==
    /\ ret.op = "poke"
    /\ \E l \in ret.log :
         /\ l.why = "Timeout"
         /\ l.pending = <<SendMany, Return>>
         /\ l.id \notin (DOMAIN generators) \cup (DOMAIN presignatures)

\* C9: in a poke, every generator that has not timed out is advanced whatever
\* happens to the others: one whose engine ends in Wait stays in generators with
\* its ready actions consumed, one whose engine returns its output is promoted
\* to presignatures (and to mine when self-initiated), one whose engine fails is
\* dropped.
C9_OthersAdvance ==
    [][ret'.op = "poke" =>
         \A id \in DOMAIN generators :
            LET generator == generators[id]
                pending == generator.protocol.pending
            IN  ~Expired(generator) =>
                  /\ ~HasTerminal(pending)
                        => /\ id \in DOMAIN generators'
                           /\ generators'[id] = [generator EXCEPT !.protocol.pending = << >>]
                  /\ (HasTerminal(pending) /\ Last(pending) = Return)
                        => /\ id \notin DOMAIN generators'
                           /\ id \in DOMAIN presignatures'
                           /\ presignatures'[id] = [id |-> id, output |-> generator.protocol.serial]
                           /\ Count(mine', id) = Count(mine, id) + (IF generator.mine THEN 1 ELSE 0)
                  /\ (HasTerminal(pending) /\ Last(pending) = Failure)
                        => /\ id \notin DOMAIN generators'
                           /\ id \in DOMAIN presignatures'
                                 => presignatures'[id].output # generator.protocol.serial
                           /\ Count(mine', id) = Count(mine, id)]_vars

C9_Witness ==
    /\ ret.op = "poke" /\ ret.res = "Err"
    /\ \E a, b \in ret.log :
         /\ a.why \in {"Err", "Timeout"}
         /\ b.why = "Return" /\ b.mine
         /\ b.id \in DOMAIN presignatures
         /\ Count(mine, b.id) = 1

\* C10: every message an engine emitted during a poke call is in the batch the
\* call returns.
C10_AllMessagesReturned == ret.op = "poke" => ret.msgs = ret.messages

\* C11: a poke that returns an empty batch has changed nothing: no generator
\* completed or was removed, and presignatures, generators and mine are as
\* they were before the call.
C11_EmptyBatchNoProgress ==
    [][(ret'.op = "poke" /\ ret'.res = "Ok" /\ ret'.msgs = << >>)
          => UNCHANGED <<presignatures, generators, mine>>]_vars

\* the messages of a batch that generator id addressed to participant p
Sent(messages, id, p) ==
    Cardinality({i \in DOMAIN messages : messages[i][1] = p /\ messages[i][2].id = id})

\* C12: in a poke, a generator that has not timed out emits one message per
\* configured participant (the node itself included) for every SendMany its
\* engine had ready and one message to p for every SendPrivate(p); a manager
\* whose only generator is self-initiated and has SendMany and then Return ready
\* returns exactly one message to each of its participants and has the id at
\* the back of mine after that call.
C12_BroadcastReachesAll ==
    [][ret'.op = "poke" =>
         \A id \in DOMAIN generators :
            LET generator == generators[id]
                pending == generator.protocol.pending
            IN  ~Expired(generator) =>
                  /\ \A p \in ParticipantSet :
                        Sent(ret'.messages, id, p) =
                           Count(pending, SendMany) + Count(pending, SendPrivate(p))
                  /\ (/\ DOMAIN generators = {id}
                      /\ generator.mine
                      /\ pending = <<SendMany, Return>>)
                        => /\ ret'.res = "Ok"
                           /\ Len(ret'.msgs) = Len(participants)
                           /\ \A p \in ParticipantSet : Sent(ret'.msgs, id, p) = 1
                           /\ mine' = Append(mine, id)
                           /\ id \in DOMAIN presignatures']_vars

C12_Witness ==
    /\ ret.op = "poke" /\ ret.res = "Ok"
    /\ Len(ret.msgs) = Len(participants)
    /\ \E l \in ret.log :
         /\ ret.log = {l}
         /\ l.mine /\ l.why = "Return" /\ l.pending = <<SendMany, Return>>
         /\ mine # << >> /\ Last(mine) = l.id
         /\ \A p \in ParticipantSet : Sent(ret.msgs, l.id, p) = 1

\* C15: get_or_generate for an id whose presignature has completed, still held
\* or already handed out by take / take_mine, returns AlreadyGenerated, creates
\* no generator and takes no triple.
C15_SpentStaysSpent ==
    [][(/\ ret'.op = "get_or_generate"
        /\ ret'.id \notin DOMAIN generators
        /\ \/ ret'.id \in DOMAIN presignatures
           \/ \E p \in DOMAIN handed : p.id = ret'.id)
          => /\ ret'.res = "AlreadyGenerated"
             /\ UNCHANGED <<generators, triples, nextSerial>>]_vars

\* C16: an id leaves generators only in a poke, and in the same call either its
\* engine returned its output and the id is then in presignatures with that
\* output (and once more in mine exactly when the generator was self-initiated),
\* or the generator failed (engine error or timeout) and the call added no
\* presignature and no queue entry for the id.
C16_PromotionAtomic ==
    [][/\ ret'.op # "poke" => (DOMAIN generators) \subseteq (DOMAIN generators')
       /\ ret'.op = "poke" =>
            \A id \in (DOMAIN generators) \ (DOMAIN generators') :
               LET generator == generators[id]
                   pending == generator.protocol.pending
               IN  \/ /\ ~Expired(generator)
                      /\ pending # << >> /\ Last(pending) = Return
                      /\ id \in DOMAIN presignatures'
                      /\ presignatures'[id] = [id |-> id, output |-> generator.protocol.serial]
                      /\ Count(mine', id) = Count(mine, id) + (IF generator.mine THEN 1 ELSE 0)
                   \/ /\ Expired(generator) \/ (pending # << >> /\ Last(pending) = Failure)
                      /\ id \in DOMAIN presignatures'
                            => id \in DOMAIN presignatures /\ presignatures'[id] = presignatures[id]
                      /\ Count(mine', id) = Count(mine, id)]_vars

C16_Witness ==
    /\ ret.op = "poke"
    /\ \E a, b \in ret.log :
         /\ a.why = "Return" /\ ~a.mine
         /\ a.id \in DOMAIN presignatures /\ a.id \notin DOMAIN generators
         /\ Count(mine, a.id) = 0
         /\ b.why \in {"Err", "Timeout"}
         /\ b.id \notin (DOMAIN presignatures) \cup (DOMAIN generators)

\* the triples no generator has consumed yet: those of the TripleManager and
\* those the caller holds for a generate
Unused == triples \cup held

\* C17: triples are used once and never come back: no operation adds a triple
\* to the TripleManager, a new generator takes its two triples out of the
\* unused ones, the triples of the in-flight generators are not in the
\* TripleManager, and a generator that a poke drops leaves its triples absent.
C17_TriplesSingleUse ==
    /\ [](\A id \in DOMAIN generators :
             {generators[id].triple0, generators[id].triple1} \cap Unused = {})
    /\ [][/\ triples' \subseteq triples
          /\ Unused' \subseteq Unused
          /\ nextSerial' # nextSerial =>
                \E id \in DOMAIN generators' :
                   /\ generators'[id].protocol.serial = nextSerial'
                   /\ generators'[id].triple0 # generators'[id].triple1
                   /\ {generators'[id].triple0, generators'[id].triple1} \subseteq Unused \ Unused'
          /\ \A id \in (DOMAIN generators) \ (DOMAIN generators') :
                {generators[id].triple0, generators[id].triple1} \cap Unused' = {}]_vars

C17_Witness ==
    /\ ret.op = "poke" /\ ret.res = "Err"
    /\ \E l \in ret.log : l.why \in {"Err", "Timeout"}
    /\ generators = EmptyMap /\ presignatures = EmptyMap
    /\ nextSerial = 1
    /\ held = {} /\ Cardinality(triples) = NumTriples - 2

\* C18: a generate that succeeds adds one generator with mine = TRUE and leaves
\* every generator that was there, presignatures and mine as they were, so
\* potential_len grows by one and len and my_len stay; a generate that fails
\* changes none of them.
C18_GenerateAddsOne ==
    [][ret'.op = "generate" =>
         IF ret'.res = "Ok"
         THEN /\ \A id \in DOMAIN generators :
                    id \in DOMAIN generators' /\ generators'[id] = generators[id]
              /\ \E id \in (DOMAIN generators') \ (DOMAIN generators) :
                    /\ (DOMAIN generators') = (DOMAIN generators) \cup {id}
                    /\ generators'[id].mine
              /\ UNCHANGED <<presignatures, mine>>
              /\ potential_len' = potential_len + 1
              /\ len' = len /\ my_len' = my_len
         ELSE UNCHANGED <<generators, presignatures, mine>>]_vars

\* C19: a get_or_generate that returns an error (AlreadyGenerated,
\* TripleIsMissing or an initialization error) leaves the triples of the
\* TripleManager, generators, presignatures and mine as they were.
C19_ErrorChangesNothing ==
    [][(/\ ret'.op = "get_or_generate"
        /\ ret'.res \in {"AlreadyGenerated", "TripleIsMissing", "InitializationError"})
          => UNCHANGED <<triples, generators, presignatures, mine>>]_vars

\* what the engine actions of a generator, in their order, are to put in a batch
RECURSIVE Expected(_, _, _)
Expected(id, generator, pending) ==
    IF pending = << >> THEN << >>
    ELSE LET message == [id |-> id, triple0 |-> generator.triple0,
                         triple1 |-> generator.triple1, epoch |-> epoch, from |-> me]
             a == Head(pending)
         IN  (CASE a.kind = "SendMany" ->
                     [i \in 1..Len(participants) |-> <<participants[i], message>>]
                [] a.kind = "SendPrivate" -> << <<a.to, message>> >>
                [] OTHER -> << >>)
             \o Expected(id, generator, Tail(pending))

\* C20: in the messages of a poke, those of one generator are in the order of
\* its engine actions, a SendMany standing as one message per participant where
\* the action stood, and each carries the generator's id, its triple0 and
\* triple1, the manager's epoch and the manager's identity as sender.
C20_EngineOrder ==
    [][ret'.op = "poke" =>
         /\ \A id \in DOMAIN generators :
               ~Expired(generators[id]) =>
                  SelectSeq(ret'.messages, LAMBDA x : x[2].id = id) =
                     Expected(id, generators[id], generators[id].protocol.pending)
         /\ ret'.res = "Ok" => ret'.msgs = ret'.messages
         /\ \A i \in DOMAIN ret'.messages :
               \E id \in DOMAIN generators :
                  ret'.messages[i][2] =
                     [id |-> id, triple0 |-> generators[id].triple0,
                      triple1 |-> generators[id].triple1, epoch |-> epoch, from |-> me]]_vars

C20_Witness ==
    /\ ret.op = "poke" /\ ret.res = "Ok"
    /\ \E l \in ret.log :
         /\ l.pending = <<SendPrivate(participants[2]), SendMany>>
         /\ LET own == SelectSeq(ret.msgs, LAMBDA x : x[2].id = l.id) IN
              /\ Len(own) = 1 + Len(participants)
              /\ own[1][1] = participants[2]
              /\ \A i \in 1..Len(participants) : own[1 + i][1] = participants[i]

\* C14: take_mine returns None exactly when mine is empty, and a presignature
\* it returns is one of those the earliest poke call promoted among the
\* self-initiated presignatures not handed out yet: no self-initiated
\* presignature promoted by an earlier poke call is still waiting.
C14_FifoInCompletionOrder ==
    [][ret'.op = "take_mine" =>
         /\ ret'.res = "None" <=> mine = << >>
         /\ ret'.res = "Some" => promoted # << >> /\ ret'.val \in Head(promoted)]_vars

\* C13: once a message of the initiator for an id has reached the joiner, both
\* nodes come to hold a completed presignature for that id, queued in mine at
\* the initiator only; a get_or_generate never changes mine and the generator
\* it creates is not the node's own, so the joiner's mine stays empty.
C13_BothCompleteOneMine ==
    /\ \A id \in PresignatureId :
          (\E m \in AtNode(Joiner).inbox : m.id = id /\ m.from = Initiator)
             ~> (/\ id \in DOMAIN AtNode(Initiator).presignatures
                 /\ id \in DOMAIN AtNode(Joiner).presignatures
                 /\ Count(AtNode(Initiator).mine, id) = 1
                 /\ Count(AtNode(Joiner).mine, id) = 0)
    /\ [](AtNode(Joiner).mine = << >>)
    /\ [][ret'.op = "get_or_generate" =>
            /\ mine' = mine
            /\ ret'.created => ~generators'[ret'.id].mine]_vars

C13_Witness ==
    /\ \E id \in PresignatureId :
          /\ id \in DOMAIN AtNode(Initiator).presignatures
          /\ id \in DOMAIN AtNode(Joiner).presignatures
          /\ Count(AtNode(Initiator).mine, id) = 1
          /\ \E m \in AtNode(Joiner).inbox : m.id = id /\ m.from = Initiator
    /\ AtNode(Joiner).mine = << >>
    /\ AtNode(Joiner).nextSerial >= 1

====
